---------------------------- MODULE Spec2Model ----------------------------
(***************************************************************************)
(* Verification model of the Raspberry Pi sensor monitoring system:        *)
(*   src/auth/nfc_reader.py                   NFCReader                    *)
(*   src/sensors/distance_sensor.py           DistanceSensor               *)
(*   src/sensors/motion_sensor.py             MotionSensor                 *)
(*   src/sensors/temperature_humidity_sensor.py TemperatureHumiditySensor  *)
(*   src/main.py                              SensorMonitoringSystem       *)
(*                                                                         *)
(* Each component is a state machine of its own; one specification per     *)
(* component keeps the other components' variables at their idle values.   *)
(*                                                                         *)
(* Representation of Python values:                                        *)
(*   None            the empty tuple << >>                                 *)
(*   a number x      the 1-tuple <<x>> wherever the value may also be None *)
(*   a card id       a string; NoneId stands for None in that position     *)
(*   seconds         integer milliseconds (distance sensor), integer       *)
(*                   tenths of a second (motion sensor, card reader)       *)
(*   centimetres     integer thousandths of a centimetre                   *)
(*   degrees, %      integer hundredths                                    *)
(***************************************************************************)
EXTENDS Integers, Sequences, FiniteSets, TLC

VARIABLES
    \* ---- NFCReader (src/auth/nfc_reader.py) ----
    authorized_cards,   \* self.authorized_cards: set of digests
    card_call,          \* the last API call on the card set and its return value
    card_raised,        \* the last API call left through an exception
    \* ---- NFCReader called from several threads ----
    thr_pc,             \* position of each thread inside its call
    thr_id,             \* the card id each thread's call was given
    thr_raised,         \* the threads one of whose calls left through an exception
    \* ---- DistanceSensor.measure_distance ----
    dist_pc,            \* position inside measure_distance
    pulse_start, timeout_start, pulse_end, timeout_end,
    dist_ret,           \* value returned by measure_distance
    dist_exit,          \* which return statement produced dist_ret
    \* ---- DistanceSensor.measure_multiple ----
    mm_pc, mm_count, mm_i,
    measurements,       \* the local list of accepted samples
    mm_samples,         \* every value measure_distance returned, in call order
    mm_ret,
    \* ---- MotionSensor.wait_for_motion ----
    wm_pc, wm_timeout,
    wm_clock,           \* time.time() - start_time, in tenths of a second
    wm_line,            \* the level the last GPIO.input returned
    wm_ret,
    \* ---- TemperatureHumiditySensor.read_data ----
    th_pc,
    th_mock,            \* self.sensor is None (Adafruit_DHT not installed)
    th_script,          \* what the transducer answers on attempts 1, 2, 3
    th_attempt,         \* read attempts made by read_retry so far
    th_raw,             \* (humidity, temperature) returned by read_retry
    th_ret,             \* (temperature, humidity) returned by read_data
    th_exit,
    \* ---- TemperatureHumiditySensor.read_multiple ----
    rm_pc, rm_count, rm_i,
    temperatures, humidities,   \* the local lists of accepted readings
    rm_samples,         \* every pair read_data returned, in call order
    rm_ret,
    \* ---- SensorMonitoringSystem (src/main.py) ----
    skip_auth, headless,
    gui,                \* self.gui is not None
    nfc_lib,            \* the nfc module was imported (no mock mode)
    clf,                \* the reader handle: "open" or "none"
    card_on_reader,     \* the card held to the reader, or NoCard
    main_pc,            \* position of the main thread inside run()
    is_authenticated, is_running,
    wait_elapsed,       \* time.time() - start_time inside wait_for_card (0 outside)
    wait_ret,           \* what wait_for_card returned
    card_id,            \* what read_card_id returned
    valid_ret,          \* what validate_card returned
    auth_error,         \* a reader call raised during authentication
    gpio_setup,         \* the sensors whose GPIO lines are set up
    sensor_pc,          \* position of the sensor thread inside sensor_loop
    sensor_data,        \* the dict read_sensors is filling
    tick_failed,        \* the sensors whose read failed in the current tick
    ticks,              \* readings published so far
    data_queue,         \* self.data_queue
    gui_running,        \* SensorGUI.is_running
    tick_done,          \* the sensors read so far in the current tick
    consumed,           \* timestamps of the readings data_update_loop took, in order
    shutdown_calls,     \* calls of shutdown() so far
    cleanup_calls,      \* calls of each component's cleanup() so far
    release_ops,        \* GPIO.cleanup / clf.close operations issued per resource
    finalized,          \* the components' __del__ methods have run
    stop_tick,          \* ticks published when is_running was first set to False
    \* ---- ConfigManager (src/config.py) ----
    cfg_pc,             \* position of the startup sequence
    env,                \* the pin numbers given in environment variables (None: unset)
    pins,               \* self.pins
    ranges,             \* (min, max) of the distance, temperature, humidity ranges
    errors,             \* the list validate_config returned
    claimed             \* the GPIO line each constructed sensor component claimed

cardVars == <<authorized_cards, card_call, card_raised>>
thrVars == <<thr_pc, thr_id, thr_raised>>
distVars == <<dist_pc, pulse_start, timeout_start, pulse_end, timeout_end,
              dist_ret, dist_exit>>
multVars == <<mm_pc, mm_count, mm_i, measurements, mm_samples, mm_ret>>
motionVars == <<wm_pc, wm_timeout, wm_clock, wm_line, wm_ret>>
thVars == <<th_pc, th_mock, th_script, th_attempt, th_raw, th_ret, th_exit>>
rmVars == <<rm_pc, rm_count, rm_i, temperatures, humidities, rm_samples, rm_ret>>
configVars == <<skip_auth, headless, gui, nfc_lib>>
authVars == <<clf, card_on_reader, wait_elapsed, wait_ret, card_id, valid_ret,
              auth_error>>
exitVars == <<shutdown_calls, cleanup_calls, release_ops, finalized, stop_tick>>
runVars == <<main_pc, is_authenticated, is_running, gpio_setup, gui_running,
             exitVars>>
histVars == <<tick_done, consumed>>
loopVars == <<sensor_pc, sensor_data, tick_failed, ticks, data_queue, histVars>>
sysVars == <<configVars, authVars, runVars, loopVars>>
cfgVars == <<cfg_pc, env, pins, ranges, errors, claimed>>
vars == <<cardVars, thrVars, rmVars, distVars, multVars, motionVars, thVars,
          sysVars, cfgVars>>
\* what the actions of one component leave alone
nonCardVars ==
    <<thrVars, rmVars, distVars, multVars, motionVars, thVars, sysVars, cfgVars>>
nonDistVars ==
    <<thrVars, rmVars, cardVars, multVars, motionVars, thVars, sysVars, cfgVars>>
nonMultVars ==
    <<thrVars, rmVars, cardVars, distVars, motionVars, thVars, sysVars, cfgVars>>
nonMotionVars ==
    <<thrVars, rmVars, cardVars, distVars, multVars, thVars, sysVars, cfgVars>>
nonTHVars ==
    <<thrVars, rmVars, cardVars, distVars, multVars, motionVars, sysVars, cfgVars>>
nonSysVars ==
    <<thrVars, rmVars, cardVars, distVars, multVars, motionVars, thVars, cfgVars>>
nonCfgVars ==
    <<thrVars, rmVars, cardVars, distVars, multVars, motionVars, thVars, sysVars>>
nonRmVars == <<cardVars, thrVars, distVars, multVars, motionVars, thVars, sysVars,
               cfgVars>>
nonThrVars == <<card_call, card_raised, rmVars, distVars, multVars, motionVars, thVars,
                sysVars, cfgVars>>

(***************************************************************************)
(* Python values                                                           *)
(***************************************************************************)
None == << >>
Num(x) == <<x>>
IsNone(v) == v = None
Val(v) == v[1]

Abs(x) == IF x < 0 THEN -x ELSE x
Min(a, b) == IF a <= b THEN a ELSE b

\* round(x, n): the multiples of unit nearest to x. A tie between two
\* multiples is decided by the binary representation of the float, which the
\* integer model does not carry: both neighbours are possible results.
RoundCandidates(x, unit) ==
    LET lo == (x \div unit) * unit
        hi == lo + unit
    IN  IF x = lo THEN {lo}
        ELSE IF 2 * (x - lo) < unit THEN {lo}
        ELSE IF 2 * (x - lo) > unit THEN {hi}
        ELSE {lo, hi}

(***************************************************************************)
(* NFCReader: the authorized card set                                      *)
(***************************************************************************)
NoneId == "None"
\* the card ids the model feeds to the reader API
CardIds == {"", "01020304", "ABCDEF01", "12345678", "DEADBEEF"}

\* hashlib.sha256(card_id.encode()).hexdigest()[:16], tabulated on CardIds
hash_card_id(cid) ==
    CASE cid = ""         -> "e3b0c44298fc1c14"
      [] cid = "01020304" -> "34b8d380d481b933"
      [] cid = "ABCDEF01" -> "b5d91f1fd5c0e4bc"
      [] cid = "12345678" -> "ef797c8118f02dfb"
      [] cid = "DEADBEEF" -> "f2f8d0d580edfafd"

default_cards_without_sample == {"ABCDEF01", "12345678"}

\* lines 61-65
default_cards == {"01020304", "ABCDEF01", "12345678"}

\* load_authorized_cards on the empty set created by __init__
load_authorized_cards == {hash_card_id(c) : c \in default_cards}

\* Python truthiness of a card id: None and "" are falsy
Truthy(cid) == cid # NoneId /\ cid # ""

validate_card_nohash(cid, cards) ==
    IF ~Truthy(cid) THEN FALSE ELSE cid \in cards

\* validate_card: the value returned for cid against the set cards
validate_card(cid, cards) ==
    IF ~Truthy(cid) THEN FALSE ELSE hash_card_id(cid) \in cards

add_authorized_card_raw(cid, cards) == cards \cup {cid}

\* add_authorized_card: the set after the call
add_authorized_card(cid, cards) == cards \cup {hash_card_id(cid)}

\* set.remove(x): removes x, raises KeyError when x is not an element
set_remove(cards, x) ==
    IF x \in cards
    THEN [raised |-> FALSE, cards |-> cards \ {x}]
    ELSE [raised |-> TRUE, cards |-> cards]

remove_call_unguarded(cid, cards) == set_remove(cards, hash_card_id(cid))

\* lines 213-218: the membership test, then set.remove or the warning
remove_call(cid, cards) ==
    IF hash_card_id(cid) \in cards
    THEN set_remove(cards, hash_card_id(cid))
    ELSE [raised |-> FALSE, cards |-> cards]

\* remove_authorized_card: the set after the call
remove_authorized_card(cid, cards) == remove_call(cid, cards).cards

NoCall == [op |-> "none", id |-> NoneId, ret |-> None]

\* the threads that call the card set API of one NFCReader
Threads == {1, 2}

\* no thread is inside a call
InitThreads ==
    /\ thr_pc = [t \in Threads |-> "idle"]
    /\ thr_id = [t \in Threads |-> NoneId]
    /\ thr_raised = {}

InitCards ==
    /\ authorized_cards = load_authorized_cards
    /\ card_call = NoCall
    /\ card_raised = FALSE
    /\ InitThreads

ValidateCard(cid) ==
    /\ card_call' = [op |-> "validate", id |-> cid,
                     ret |-> Num(validate_card(cid, authorized_cards))]
    /\ card_raised' = FALSE      \* lines 193-195 catch every exception
    /\ UNCHANGED authorized_cards
    /\ UNCHANGED nonCardVars

AddAuthorizedCard(cid) ==
    /\ authorized_cards' = add_authorized_card(cid, authorized_cards)
    /\ card_call' = [op |-> "add", id |-> cid, ret |-> None]
    /\ card_raised' = FALSE
    /\ UNCHANGED nonCardVars

RemoveAuthorizedCard(cid) ==
    /\ authorized_cards' = remove_authorized_card(cid, authorized_cards)
    /\ card_call' = [op |-> "remove", id |-> cid, ret |-> None]
    /\ card_raised' = remove_call(cid, authorized_cards).raised
    /\ UNCHANGED nonCardVars

(***************************************************************************)
(* NFCReader: the card set API called from several threads. The methods    *)
(* take no lock; a thread switch can happen between any two operations on  *)
(* the set, each of which (in, add, remove) is atomic by itself.           *)
(***************************************************************************)
\* lines 183-184 of validate_card: one lookup in the set
ThreadValidate(t, cid) ==
    /\ thr_pc[t] = "idle"
    /\ thr_id' = [thr_id EXCEPT ![t] = cid]
    /\ UNCHANGED <<authorized_cards, thr_pc, thr_raised>>
    /\ UNCHANGED nonThrVars

\* lines 203-204 of add_authorized_card: one set.add
ThreadAdd(t, cid) ==
    /\ thr_pc[t] = "idle"
    /\ authorized_cards' = add_authorized_card(cid, authorized_cards)
    /\ thr_id' = [thr_id EXCEPT ![t] = cid]
    /\ UNCHANGED <<thr_pc, thr_raised>>
    /\ UNCHANGED nonThrVars

\* lines 213-214 of remove_authorized_card: the membership test; lines
\* 217-218 when it fails
ThreadRemoveTest(t, cid) ==
    /\ thr_pc[t] = "idle"
    /\ thr_id' = [thr_id EXCEPT ![t] = cid]
    /\ thr_pc' = [thr_pc EXCEPT ![t] = IF hash_card_id(cid) \in authorized_cards
                                       THEN "remove" ELSE "idle"]
    /\ UNCHANGED <<authorized_cards, thr_raised>>
    /\ UNCHANGED nonThrVars

\* line 215: self.authorized_cards.remove(hashed_id), after the test passed
ThreadRemoveDo(t) ==
    /\ thr_pc[t] = "remove"
    /\ LET r == set_remove(authorized_cards, hash_card_id(thr_id[t]))
       IN  /\ authorized_cards' = r.cards
           /\ thr_raised' = IF r.raised THEN thr_raised \cup {t} ELSE thr_raised
    /\ thr_pc' = [thr_pc EXCEPT ![t] = "idle"]
    /\ UNCHANGED thr_id
    /\ UNCHANGED nonThrVars

NextThreads ==
    \E t \in Threads :
        \/ \E cid \in CardIds : ThreadValidate(t, cid)
        \/ \E cid \in CardIds : ThreadAdd(t, cid)
        \/ \E cid \in CardIds : ThreadRemoveTest(t, cid)
        \/ ThreadRemoveDo(t)

(***************************************************************************)
(* DistanceSensor.measure_distance: trigger pulse, echo edge timing,       *)
(* conversion and range check                                              *)
(***************************************************************************)
\* largest advance of time.time() between two successive reads, in ms
MaxStep == 3

EdgeTimeoutMs == 100
SoundFactor == 17150
RangeMinCm == 2
RangeMaxCm == 450
ErrorCm == -1

\* centimetres as thousandths of a centimetre
Milli(cm) == cm * 1000

\* pulse_duration * 17150 with pulse_duration in ms: thousandths of a cm
distance_of(pulse_duration) == pulse_duration * SoundFactor

in_range_narrow(distance) ==
    Milli(RangeMinCm) <= distance /\ distance <= Milli(RangeMaxCm - 50)

in_range_wide(distance) ==
    Milli(0) <= distance /\ distance <= Milli(RangeMaxCm)

\* 2 <= distance <= 450
in_range(distance) ==
    Milli(RangeMinCm) <= distance /\ distance <= Milli(RangeMaxCm)

\* lines 68-77: the values measure_distance may return for a pulse duration
\* once both edges were seen: round(distance, 2), or -1 when out of range
range_checked(pulse_duration) ==
    IF in_range(distance_of(pulse_duration))
    THEN RoundCandidates(distance_of(pulse_duration), 10)
    ELSE {Milli(ErrorCm)}

InitDistance ==
    /\ dist_pc = "idle"
    /\ pulse_start = 0
    /\ timeout_start = 0
    /\ pulse_end = 0
    /\ timeout_end = 0
    /\ dist_ret = None
    /\ dist_exit = "none"

DistReturn(value, exit) ==
    /\ dist_pc' = "done"
    /\ dist_ret' = Num(value)
    /\ dist_exit' = exit

\* lines 45-51: trigger pulse, then pulse_start = timeout_start = time.time()
\* (the clock is read relative to this instant)
MeasureStart ==
    /\ dist_pc = "idle"
    /\ dist_pc' = "wait_rise"
    /\ pulse_start' = 0
    /\ timeout_start' = 0
    /\ UNCHANGED <<pulse_end, timeout_end, dist_ret, dist_exit>>
    /\ UNCHANGED nonDistVars

\* lines 52-56 with GPIO.input(echo) == 0: one iteration of the loop body.
\* An iteration in which the clock reading did not change leaves every
\* variable as it is, so only iterations with dt >= 1 are steps.
PollRiseLow ==
    /\ dist_pc = "wait_rise"
    /\ \E dt \in 1..MaxStep :
         /\ pulse_start' = pulse_start + dt
         /\ IF pulse_start' - timeout_start > EdgeTimeoutMs
            THEN DistReturn(Milli(ErrorCm), "timeout_start")
            ELSE UNCHANGED <<dist_pc, dist_ret, dist_exit>>
    /\ UNCHANGED <<timeout_start, pulse_end, timeout_end>>
    /\ UNCHANGED nonDistVars

\* line 52 with GPIO.input(echo) == 1, then lines 59-60:
\* pulse_end = timeout_end = time.time()
PollRiseHigh ==
    /\ dist_pc = "wait_rise"
    /\ \E dt \in 0..MaxStep :
         /\ pulse_end' = pulse_start + dt
         /\ timeout_end' = pulse_start + dt
    /\ dist_pc' = "wait_fall"
    /\ UNCHANGED <<pulse_start, timeout_start, dist_ret, dist_exit>>
    /\ UNCHANGED nonDistVars

pollfall_body_shared_deadline(dt) ==
    /\ pulse_end' = pulse_end + dt
    /\ IF pulse_end' - timeout_start > EdgeTimeoutMs
       THEN DistReturn(Milli(ErrorCm), "timeout_end")
       ELSE UNCHANGED <<dist_pc, dist_ret, dist_exit>>

\* lines 62-65: the body of the wait-for-fall loop
pollfall_body(dt) ==
    /\ pulse_end' = pulse_end + dt
    /\ IF pulse_end' - timeout_end > EdgeTimeoutMs
       THEN DistReturn(Milli(ErrorCm), "timeout_end")
       ELSE UNCHANGED <<dist_pc, dist_ret, dist_exit>>

\* lines 61-65 with GPIO.input(echo) == 1
PollFallHigh ==
    /\ dist_pc = "wait_fall"
    /\ \E dt \in 1..MaxStep : pollfall_body(dt)
    /\ UNCHANGED <<pulse_start, timeout_start, timeout_end>>
    /\ UNCHANGED nonDistVars

\* line 61 with GPIO.input(echo) == 0, then lines 68-77
PollFallLow ==
    /\ dist_pc = "wait_fall"
    /\ \E r \in range_checked(pulse_end - pulse_start) :
         DistReturn(r, IF in_range(distance_of(pulse_end - pulse_start))
                       THEN "value" ELSE "out_of_range")
    /\ UNCHANGED <<pulse_start, timeout_start, pulse_end, timeout_end>>
    /\ UNCHANGED nonDistVars

\* lines 79-81: a GPIO call raises (the line is not set up any more)
MeasureException ==
    /\ dist_pc \in {"idle", "wait_rise", "wait_fall"}
    /\ DistReturn(Milli(ErrorCm), "exception")
    /\ UNCHANGED <<pulse_start, timeout_start, pulse_end, timeout_end>>
    /\ UNCHANGED nonDistVars

NextDistance ==
    \/ MeasureStart
    \/ PollRiseLow
    \/ PollRiseHigh
    \/ PollFallHigh
    \/ PollFallLow
    \/ MeasureException

(***************************************************************************)
(* DistanceSensor.measure_multiple                                         *)
(***************************************************************************)
\* largest count passed to measure_multiple
MaxCount == 5

\* pulse durations (ms) the echo line may show to one measure_distance call
SampleDurations == {0, 1, 2, 26, 27}

\* what the echo line does during one call of measure_distance
SampleOutcomes ==
    {[kind |-> k, dur |-> 0] : k \in {"timeout_start", "timeout_end", "exception"}}
    \cup {[kind |-> "pulse", dur |-> d] : d \in SampleDurations}

measure_distance_zero_on_error(outcome) ==
    IF outcome.kind = "pulse" /\ in_range(distance_of(outcome.dur))
    THEN range_checked(outcome.dur)
    ELSE {Milli(0)}

\* measure_distance as a function of what the echo line did: the values it
\* may return
measure_distance(outcome) ==
    IF outcome.kind = "pulse"
    THEN range_checked(outcome.dur)
    ELSE {Milli(ErrorCm)}

RECURSIVE Sum(_)
Sum(seq) == IF seq = << >> THEN 0 ELSE seq[1] + Sum(Tail(seq))

\* round(total / n, digits): the multiples of unit nearest to total / n
RoundDivCandidates(total, n, unit) ==
    LET lo == (total \div (n * unit)) * unit
        hi == lo + unit
        twice == 2 * (total - lo * n)
    IN  IF twice < unit * n THEN {lo}
        ELSE IF twice > unit * n THEN {hi}
        ELSE {lo, hi}

\* line 96: if distance > 0
accept_sample(distance) == distance > 0

average_over_count(samples, count) ==
    RoundDivCandidates(Sum(samples), count, 10)

\* lines 101-103: round(sum(measurements) / len(measurements), 2)
average(samples, count) ==
    RoundDivCandidates(Sum(samples), Len(samples), 10)

InitMultiple ==
    /\ mm_pc = "idle"
    /\ mm_count = 0
    /\ mm_i = 0
    /\ measurements = << >>
    /\ mm_samples = << >>
    /\ mm_ret = None

\* line 92: a call measure_multiple(count)
MeasureMultipleCall ==
    /\ mm_pc = "idle"
    /\ \E count \in 0..MaxCount : mm_count' = count
    /\ mm_pc' = "loop"
    /\ mm_i' = 0
    /\ measurements' = << >>
    /\ mm_samples' = << >>
    /\ UNCHANGED mm_ret
    /\ UNCHANGED nonMultVars

\* lines 94-98: one iteration of the for loop
MeasureMultipleSample ==
    /\ mm_pc = "loop"
    /\ mm_i < mm_count
    /\ \E outcome \in SampleOutcomes : \E distance \in measure_distance(outcome) :
         /\ mm_samples' = Append(mm_samples, distance)
         /\ measurements' = IF accept_sample(distance)
                            THEN Append(measurements, distance)
                            ELSE measurements
    /\ mm_i' = mm_i + 1
    /\ UNCHANGED <<mm_pc, mm_count, mm_ret>>
    /\ UNCHANGED nonMultVars

\* lines 100-106
MeasureMultipleReturn ==
    /\ mm_pc = "loop"
    /\ mm_i >= mm_count
    /\ IF measurements # << >>
       THEN \E r \in average(measurements, mm_count) : mm_ret' = Num(r)
       ELSE mm_ret' = Num(Milli(ErrorCm))
    /\ mm_pc' = "done"
    /\ UNCHANGED <<mm_count, mm_i, measurements, mm_samples>>
    /\ UNCHANGED nonMultVars

NextMultiple ==
    \/ MeasureMultipleCall
    \/ MeasureMultipleSample
    \/ MeasureMultipleReturn

(***************************************************************************)
(* MotionSensor.detect_motion and wait_for_motion                          *)
(***************************************************************************)
\* largest timeout passed to wait_for_motion, in tenths of a second
MaxWaitTimeout == 3
\* longest time one time.sleep(0.1) may take, in tenths of a second
MaxSleepStep == 2

\* the clock is not tracked beyond this value (no timeout reaches it)
WmClockCap == MaxWaitTimeout + MaxSleepStep + 1

\* lines 40-44: the value detect_motion returns for a line level
detect_motion(level) == level # 0

timeout_never_truthy(timeout) == FALSE

\* Python truthiness of the timeout argument: None and 0 are falsy
timeout_truthy(timeout) == timeout # None /\ Val(timeout) # 0

InitMotion ==
    /\ wm_pc = "idle"
    /\ wm_timeout = None
    /\ wm_clock = 0
    /\ wm_line = 0
    /\ wm_ret = None

\* line 57: a call wait_for_motion(timeout); start_time = time.time()
WaitForMotionCall ==
    /\ wm_pc = "idle"
    /\ \E t \in {None} \cup {Num(x) : x \in 0..MaxWaitTimeout} : wm_timeout' = t
    /\ wm_pc' = "detect"
    /\ wm_clock' = 0
    /\ UNCHANGED <<wm_line, wm_ret>>
    /\ UNCHANGED nonMotionVars

\* lines 60-61: if self.detect_motion(): return True
WaitDetect ==
    /\ wm_pc = "detect"
    /\ \E level \in {0, 1} :
         /\ wm_line' = level
         /\ IF detect_motion(level)
            THEN wm_pc' = "done" /\ wm_ret' = Num(TRUE)
            ELSE wm_pc' = "check" /\ UNCHANGED wm_ret
    /\ UNCHANGED <<wm_timeout, wm_clock>>
    /\ UNCHANGED nonMotionVars

\* lines 63-64: if timeout and (time.time() - start_time) > timeout: return False
WaitCheckTimeout ==
    /\ wm_pc = "check"
    /\ IF timeout_truthy(wm_timeout) /\ wm_clock > Val(wm_timeout)
       THEN wm_pc' = "done" /\ wm_ret' = Num(FALSE)
       ELSE wm_pc' = "sleep" /\ UNCHANGED wm_ret
    /\ UNCHANGED <<wm_timeout, wm_clock, wm_line>>
    /\ UNCHANGED nonMotionVars

\* line 66: time.sleep(0.1)
WaitSleep ==
    /\ wm_pc = "sleep"
    /\ \E dt \in 1..MaxSleepStep : wm_clock' = Min(wm_clock + dt, WmClockCap)
    /\ wm_pc' = "detect"
    /\ UNCHANGED <<wm_timeout, wm_line, wm_ret>>
    /\ UNCHANGED nonMotionVars

NextMotion ==
    \/ WaitForMotionCall
    \/ WaitDetect
    \/ WaitCheckTimeout
    \/ WaitSleep

(***************************************************************************)
(* TemperatureHumiditySensor.read_data                                     *)
(***************************************************************************)
Retries == 3
TempMin == -40
TempMax == 80
HumidityMin == 0
HumidityMax == 100

\* degrees and percent as hundredths
Centi(x) == x * 100

NoResponse == <<None, None>>

\* (humidity, temperature) answers of the transducer, in hundredths:
\* no answer, (50.0, 200.0), (48.12, 22.34), (100.0, 80.0), (100.1, 22.3)
RawResponses ==
    { NoResponse,
      <<Num(5000), Num(20000)>>,
      <<Num(4812), Num(2234)>>,
      <<Num(10000), Num(8000)>>,
      <<Num(10010), Num(2230)>> }

\* line 56: humidity is not None and temperature is not None
complete(resp) == resp[1] # None /\ resp[2] # None

valid_range_loose(temperature, humidity) ==
    /\ Centi(TempMin) <= temperature /\ temperature <= Centi(TempMax)
    /\ Centi(HumidityMin) <= humidity /\ humidity <= Centi(HumidityMax + 1)

\* line 58: -40 <= temperature <= 80 and 0 <= humidity <= 100
valid_range(temperature, humidity) ==
    /\ Centi(TempMin) <= temperature /\ temperature <= Centi(TempMax)
    /\ Centi(HumidityMin) <= humidity /\ humidity <= Centi(HumidityMax)

\* lines 56-66: the (temperature, humidity) pairs read_data may return for
\* the (humidity, temperature) pair read_retry returned
validated(resp) ==
    IF complete(resp) /\ valid_range(Val(resp[2]), Val(resp[1]))
    THEN {<<Num(t), Num(h)>> : t \in RoundCandidates(Val(resp[2]), 10),
                               h \in RoundCandidates(Val(resp[1]), 10)}
    ELSE {<<None, None>>}

\* the (temperature, humidity) pairs one call of read_data may return
ReadDataResults == UNION {validated(resp) : resp \in RawResponses}

\* line 111: if temp is not None and hum is not None
accept_reading(pair) == pair[1] # None /\ pair[2] # None

average_reading_over_count(values, count) ==
    RoundDivCandidates(Sum(values), count, 10)

\* lines 117-120: round(sum(values) / len(values), 1)
average_reading(values, count) ==
    RoundDivCandidates(Sum(values), Len(values), 10)

InitReadMultiple ==
    /\ rm_pc = "idle"
    /\ rm_count = 0
    /\ rm_i = 0
    /\ temperatures = << >>
    /\ humidities = << >>
    /\ rm_samples = << >>
    /\ rm_ret = <<None, None>>

\* lines 106-107: a call read_multiple(count)
ReadMultipleCall ==
    /\ rm_pc = "idle"
    /\ \E count \in 0..MaxCount : rm_count' = count
    /\ rm_pc' = "loop"
    /\ rm_i' = 0
    /\ temperatures' = << >>
    /\ humidities' = << >>
    /\ rm_samples' = << >>
    /\ UNCHANGED rm_ret
    /\ UNCHANGED nonRmVars

\* lines 109-114: one iteration of the for loop
ReadMultipleSample ==
    /\ rm_pc = "loop"
    /\ rm_i < rm_count
    /\ \E pair \in ReadDataResults :
         /\ rm_samples' = Append(rm_samples, pair)
         /\ IF accept_reading(pair)
            THEN /\ temperatures' = Append(temperatures, Val(pair[1]))
                 /\ humidities' = Append(humidities, Val(pair[2]))
            ELSE UNCHANGED <<temperatures, humidities>>
    /\ rm_i' = rm_i + 1
    /\ UNCHANGED <<rm_pc, rm_count, rm_ret>>
    /\ UNCHANGED nonRmVars

\* lines 116-123
ReadMultipleReturn ==
    /\ rm_pc = "loop"
    /\ rm_i >= rm_count
    /\ IF temperatures # << >> /\ humidities # << >>
       THEN \E t \in average_reading(temperatures, rm_count),
               h \in average_reading(humidities, rm_count) :
                rm_ret' = <<Num(t), Num(h)>>
       ELSE rm_ret' = <<None, None>>
    /\ rm_pc' = "done"
    /\ UNCHANGED <<rm_count, rm_i, temperatures, humidities, rm_samples>>
    /\ UNCHANGED nonRmVars

NextReadMultiple ==
    \/ ReadMultipleCall
    \/ ReadMultipleSample
    \/ ReadMultipleReturn

\* lines 70-71: round(20 + uniform(-5, 15), 1), round(50 + uniform(-20, 30), 1)
MockTemperatures == {1500, 2230, 3500}
MockHumidities == {3000, 8000}

InitTH ==
    /\ InitReadMultiple
    /\ th_pc = "idle"
    /\ th_mock \in BOOLEAN
    /\ th_script \in [1..Retries -> RawResponses]
    /\ th_attempt = 0
    /\ th_raw = NoResponse
    /\ th_ret = <<None, None>>
    /\ th_exit = "none"

\* line 53, sensor present: enter Adafruit_DHT.read_retry(sensor, pin, retries=3)
ReadDataCall ==
    /\ th_pc = "idle"
    /\ ~th_mock
    /\ th_pc' = "read_retry"
    /\ th_attempt' = 0
    /\ UNCHANGED <<th_mock, th_script, th_raw, th_ret, th_exit>>
    /\ UNCHANGED nonTHVars

\* line 54: one attempt inside read_retry; the first complete answer is
\* returned, and (None, None) after the last attempt
ReadRetryAttempt ==
    /\ th_pc = "read_retry"
    /\ th_attempt < Retries
    /\ th_attempt' = th_attempt + 1
    /\ IF complete(th_script[th_attempt + 1])
       THEN th_raw' = th_script[th_attempt + 1] /\ th_pc' = "validate"
       ELSE IF th_attempt + 1 = Retries
            THEN th_raw' = NoResponse /\ th_pc' = "validate"
            ELSE UNCHANGED <<th_raw, th_pc>>
    /\ UNCHANGED <<th_mock, th_script, th_ret, th_exit>>
    /\ UNCHANGED nonTHVars

\* lines 56-66
ReadDataValidate ==
    /\ th_pc = "validate"
    /\ \E r \in validated(th_raw) : th_ret' = r
    /\ th_exit' = IF ~complete(th_raw) THEN "failed"
                  ELSE IF valid_range(Val(th_raw[2]), Val(th_raw[1])) THEN "value"
                  ELSE "out_of_range"
    /\ th_pc' = "done"
    /\ UNCHANGED <<th_mock, th_script, th_attempt, th_raw>>
    /\ UNCHANGED nonTHVars

\* lines 67-73: mock data when the library is missing
ReadDataMock ==
    /\ th_pc = "idle"
    /\ th_mock
    /\ \E t \in MockTemperatures, h \in MockHumidities : th_ret' = <<Num(t), Num(h)>>
    /\ th_exit' = "mock"
    /\ th_pc' = "done"
    /\ UNCHANGED <<th_mock, th_script, th_attempt, th_raw>>
    /\ UNCHANGED nonTHVars

\* lines 75-77: the driver raises
ReadDataException ==
    /\ th_pc = "read_retry"
    /\ th_ret' = <<None, None>>
    /\ th_exit' = "exception"
    /\ th_pc' = "done"
    /\ UNCHANGED <<th_mock, th_script, th_attempt, th_raw>>
    /\ UNCHANGED nonTHVars

NextTH ==
    \/ ReadDataCall
    \/ ReadRetryAttempt
    \/ ReadDataValidate
    \/ ReadDataMock
    \/ ReadDataException

(***************************************************************************)
(* SensorMonitoringSystem: run(), authenticate_user(), sensor_loop(),      *)
(* read_sensors(), shutdown()                                              *)
(***************************************************************************)
\* readings the sensor loop publishes before the model stops it
MaxTicks == 2
\* longest time one pass of the wait_for_card loop may take, in tenths of a second
MaxPollStep == 3

\* wait_for_card(timeout=30), in tenths of a second
CardTimeout == 300

NoCard == "no card"
\* the cards that may be held to the reader
ReaderCards == {"01020304", "DEADBEEF"}

\* what the echo line, and the transducer, may do in one tick
TickOutcomes ==
    { [kind |-> "timeout_start", dur |-> 0],
      [kind |-> "pulse", dur |-> 27],
      [kind |-> "pulse", dur |-> 1] }
TickResponses ==
    { NoResponse, <<Num(5000), Num(20000)>>, <<Num(4810), Num(2230)>> }

\* lines 86-93: the dict read_sensors starts from
NewSensorData(now) ==
    [ timestamp |-> now,
      motion_detected |-> FALSE,
      distance_cm |-> Num(0),
      temperature_c |-> Num(0),
      humidity_percent |-> Num(0),
      system_status |-> "running" ]

NoSensorData == NewSensorData(0)

\* calls of shutdown() the model follows
MaxShutdownCalls == 2

\* the components shutdown() cleans up, and the hardware resources they hold
\* (the temperature/humidity sensor holds none: its cleanup() only logs)
Components == {"motion", "distance", "th", "nfc"}
Resources == {"motion", "distance", "nfc"}
SensorReads == {"motion", "distance", "th"}

\* lines 39-41 and the drivers' constructors: nothing stopped, cleaned up,
\* released or finalized yet
InitExit ==
    /\ shutdown_calls = 0
    /\ cleanup_calls = [c \in Components |-> 0]
    /\ release_ops = [r \in Resources |-> 0]
    /\ finalized = FALSE
    /\ stop_tick = None

InitHist ==
    /\ tick_done = {}
    /\ consumed = << >>

InitSystem ==
    /\ skip_auth \in BOOLEAN
    /\ headless \in BOOLEAN
    /\ gui = ~headless
    /\ nfc_lib \in BOOLEAN
    /\ clf \in (IF nfc_lib THEN {"open", "none"} ELSE {"none"})
    /\ card_on_reader = NoCard
    /\ main_pc = "start"
    /\ is_authenticated = FALSE
    /\ is_running = FALSE
    /\ wait_elapsed = 0
    /\ wait_ret = None
    /\ card_id = NoneId
    /\ valid_ret = None
    /\ auth_error = FALSE
    /\ gpio_setup = {"motion", "distance"}
    /\ sensor_pc = "idle"
    /\ sensor_data = NoSensorData
    /\ tick_failed = {}
    /\ ticks = 0
    /\ data_queue = << >>
    /\ gui_running = FALSE
    /\ InitExit
    /\ InitHist

\* ---- the card holder (environment) ----
PresentCard ==
    /\ main_pc \in {"start", "wait_for_card"}
    /\ nfc_lib /\ ~skip_auth
    /\ card_on_reader = NoCard
    /\ \E c \in ReaderCards : card_on_reader' = c
    /\ UNCHANGED <<configVars, clf, wait_elapsed, wait_ret, card_id, valid_ret,
                   auth_error, runVars, loopVars>>
    /\ UNCHANGED nonSysVars

RemoveCard ==
    /\ main_pc \in {"wait_for_card", "read_card_id"}
    /\ card_on_reader # NoCard
    /\ card_on_reader' = NoCard
    /\ UNCHANGED <<configVars, clf, wait_elapsed, wait_ret, card_id, valid_ret,
                   auth_error, runVars, loopVars>>
    /\ UNCHANGED nonSysVars

AuthFailedContinues ==
    /\ main_pc' = "set_running"
    /\ UNCHANGED <<is_authenticated, is_running, gpio_setup, gui_running, exitVars>>

\* ---- run(), lines 128-135 ----
\* authenticate_user returned a falsy value: run() returns (line 135)
AuthFailed ==
    /\ main_pc' = "done"
    /\ UNCHANGED <<is_authenticated, is_running, gpio_setup, gui_running, exitVars>>

RunStart ==
    /\ main_pc = "start"
    /\ IF skip_auth
       THEN /\ is_authenticated' = TRUE
            /\ main_pc' = "set_running"
       ELSE /\ main_pc' = "wait_for_card"
            /\ UNCHANGED is_authenticated
    /\ UNCHANGED <<is_running, gpio_setup, gui_running, exitVars>>
    /\ UNCHANGED <<configVars, authVars, loopVars>>
    /\ UNCHANGED nonSysVars

\* wait_for_card, lines 90-94: mock mode
WaitForCardMock ==
    /\ main_pc = "wait_for_card"
    /\ ~nfc_lib
    /\ wait_ret' = Num(TRUE)
    /\ main_pc' = "read_card_id"
    /\ UNCHANGED <<is_authenticated, is_running, gpio_setup, gui_running, exitVars>>
    /\ UNCHANGED <<configVars, clf, card_on_reader, wait_elapsed, card_id,
                   valid_ret, auth_error, loopVars>>
    /\ UNCHANGED nonSysVars

\* wait_for_card, lines 100-115: one pass of the loop
WaitForCardPoll ==
    /\ main_pc = "wait_for_card"
    /\ nfc_lib
    /\ wait_elapsed < CardTimeout
    /\ IF clf = "open" /\ card_on_reader # NoCard
       THEN /\ wait_ret' = Num(TRUE)
            /\ main_pc' = "read_card_id"
            /\ wait_elapsed' = 0
       ELSE /\ \E dt \in 1..MaxPollStep : wait_elapsed' = wait_elapsed + dt
            /\ UNCHANGED <<wait_ret, main_pc>>
    /\ UNCHANGED <<is_authenticated, is_running, gpio_setup, gui_running, exitVars>>
    /\ UNCHANGED <<configVars, clf, card_on_reader, card_id, valid_ret,
                   auth_error, loopVars>>
    /\ UNCHANGED nonSysVars

\* wait_for_card, lines 117-118: timeout; authenticate_user falls off its end
WaitForCardTimeout ==
    /\ main_pc = "wait_for_card"
    /\ nfc_lib
    /\ wait_elapsed >= CardTimeout
    /\ wait_ret' = Num(FALSE)
    /\ wait_elapsed' = 0
    /\ AuthFailed
    /\ UNCHANGED <<configVars, clf, card_on_reader, card_id,
                   valid_ret, auth_error, loopVars>>
    /\ UNCHANGED nonSysVars

\* wait_for_card, lines 120-122: clf.sense raises
WaitForCardException ==
    /\ main_pc = "wait_for_card"
    /\ nfc_lib /\ clf = "open"
    /\ wait_elapsed < CardTimeout
    /\ wait_ret' = Num(FALSE)
    /\ wait_elapsed' = 0
    /\ auth_error' = TRUE
    /\ AuthFailed
    /\ UNCHANGED <<configVars, clf, card_on_reader, card_id,
                   valid_ret, loopVars>>
    /\ UNCHANGED nonSysVars

\* read_card_id, lines 130-169: the ids it may return
read_card_id ==
    IF ~nfc_lib THEN {"01020304"}
    ELSE IF clf = "open" /\ card_on_reader # NoCard
         THEN {card_on_reader, NoneId}   \* NoneId: sense found nothing, or raised
         ELSE {NoneId}

ReadCardId ==
    /\ main_pc = "read_card_id"
    /\ \E id \in read_card_id :
         /\ card_id' = id
         /\ auth_error' = (auth_error \/ (id = NoneId /\ card_on_reader # NoCard))
    /\ main_pc' = "validate"
    /\ UNCHANGED <<is_authenticated, is_running, gpio_setup, gui_running, exitVars>>
    /\ UNCHANGED <<configVars, clf, card_on_reader, wait_elapsed, wait_ret,
                   valid_ret, loopVars>>
    /\ UNCHANGED nonSysVars

accepts_any_card(id, cards) == Truthy(id)

\* authenticate_user, line 73: if self.nfc_reader.validate_card(card_id)
accepts(id, cards) == validate_card(id, cards)

\* authenticate_user, lines 73-79, and run(), lines 133-135
Validate ==
    /\ main_pc = "validate"
    /\ valid_ret' = Num(accepts(card_id, authorized_cards))
    /\ IF accepts(card_id, authorized_cards)
       THEN /\ is_authenticated' = TRUE
            /\ main_pc' = "set_running"
            /\ UNCHANGED <<is_running, gpio_setup, gui_running, exitVars>>
       ELSE AuthFailed
    /\ UNCHANGED <<configVars, clf, card_on_reader, wait_elapsed, wait_ret,
                   card_id, auth_error, loopVars>>
    /\ UNCHANGED nonSysVars

\* ---- run(), lines 138-156 ----
SetRunning ==
    /\ main_pc = "set_running"
    /\ is_running' = TRUE
    /\ main_pc' = "start_thread"
    /\ UNCHANGED <<is_authenticated, gpio_setup, gui_running, exitVars>>
    /\ UNCHANGED <<configVars, authVars, loopVars>>
    /\ UNCHANGED nonSysVars

\* lines 141-142
StartThread ==
    /\ main_pc = "start_thread"
    /\ sensor_pc' = "loop"
    /\ main_pc' = IF gui /\ ~headless THEN "gui_run" ELSE "headless_wait"
    /\ UNCHANGED <<is_authenticated, is_running, gpio_setup, gui_running, exitVars>>
    /\ UNCHANGED <<sensor_data, tick_failed, ticks, data_queue, histVars>>
    /\ UNCHANGED <<configVars, authVars>>
    /\ UNCHANGED nonSysVars

\* lines 141-142: a KeyboardInterrupt arrives after is_running = True and
\* before the try statement of line 145 is entered (Thread.start() waits for
\* the thread to come up); no handler and no finally clause covers these
\* lines, so the exception leaves run()
InterruptBeforeTry ==
    /\ main_pc = "start_thread"
    /\ sensor_pc' \in {"idle", "loop"}      \* the thread was started, or not yet
    /\ main_pc' = "done"
    /\ UNCHANGED <<is_authenticated, is_running, gpio_setup, gui_running>>
    /\ UNCHANGED <<shutdown_calls, cleanup_calls, release_ops, finalized, stop_tick>>
    /\ UNCHANGED <<sensor_data, tick_failed, ticks, data_queue, histVars>>
    /\ UNCHANGED <<configVars, authVars>>
    /\ UNCHANGED nonSysVars

\* line 147 and gui_display.py lines 370-380: gui.run() up to root.mainloop()
GuiRun ==
    /\ main_pc = "gui_run"
    /\ gui_running' = TRUE
    /\ main_pc' = "gui_mainloop"
    /\ UNCHANGED <<is_authenticated, is_running, gpio_setup, exitVars>>
    /\ UNCHANGED <<configVars, authVars, loopVars>>
    /\ UNCHANGED nonSysVars

\* gui_display.py lines 364-368 and 382-384: the window is closed
GuiClose ==
    /\ main_pc = "gui_mainloop"
    /\ gui_running' = FALSE
    /\ main_pc' = "shutdown"
    /\ UNCHANGED <<is_authenticated, is_running, gpio_setup>>
    /\ UNCHANGED <<shutdown_calls, cleanup_calls, release_ops, finalized, stop_tick>>
    /\ UNCHANGED <<configVars, authVars, loopVars>>
    /\ UNCHANGED nonSysVars

\* lines 151-152: while self.is_running: time.sleep(1)
HeadlessWait ==
    /\ main_pc = "headless_wait"
    /\ main_pc' = IF is_running THEN "headless_wait" ELSE "shutdown"
    /\ UNCHANGED <<is_authenticated, is_running, gpio_setup, gui_running, exitVars>>
    /\ UNCHANGED <<configVars, authVars, loopVars>>
    /\ UNCHANGED nonSysVars

\* lines 153-156: KeyboardInterrupt, or any other exception, inside the try
\* block: the finally clause calls shutdown()
KeyboardInterrupt ==
    /\ main_pc \in {"gui_run", "gui_mainloop", "headless_wait"}
    /\ main_pc' = "shutdown"
    /\ UNCHANGED <<is_authenticated, is_running, gpio_setup, gui_running>>
    /\ UNCHANGED <<shutdown_calls, cleanup_calls, release_ops, finalized, stop_tick>>
    /\ UNCHANGED <<configVars, authVars, loopVars>>
    /\ UNCHANGED nonSysVars

\* ---- shutdown(), lines 160-169 ----
\* the sensor thread is between the start of read_sensors and the put
tick_in_progress == sensor_pc \in {"read_motion", "read_distance", "read_th", "put"}

\* stop_tick after is_running = False: set by the first stop only
stopped_at(previous) ==
    IF previous = None THEN <<ticks, tick_in_progress>> ELSE previous

\* one more call of a component's cleanup()
cleanup_called(calls, c) == [calls EXCEPT ![c] = @ + 1]
\* one more release operation issued for a resource
released(ops, r) == [ops EXCEPT ![r] = @ + 1]

\* line 161
ShutdownStop ==
    /\ main_pc = "shutdown"
    /\ is_running' = FALSE
    /\ shutdown_calls' = shutdown_calls + 1
    /\ stop_tick' = stopped_at(stop_tick)
    /\ main_pc' = "cleanup_motion"
    /\ UNCHANGED <<is_authenticated, gpio_setup, gui_running>>
    /\ UNCHANGED <<cleanup_calls, release_ops, finalized>>
    /\ UNCHANGED <<configVars, authVars, loopVars>>
    /\ UNCHANGED nonSysVars

\* line 164 and motion_sensor.py lines 80-86: GPIO.cleanup(self.pin) is
\* issued on every call
CleanupMotion ==
    /\ main_pc = "cleanup_motion"
    /\ gpio_setup' = gpio_setup \ {"motion"}
    /\ cleanup_calls' = cleanup_called(cleanup_calls, "motion")
    /\ release_ops' = released(release_ops, "motion")
    /\ main_pc' = "cleanup_distance"
    /\ UNCHANGED <<is_authenticated, is_running, gui_running>>
    /\ UNCHANGED <<shutdown_calls, finalized, stop_tick>>
    /\ UNCHANGED <<configVars, authVars, loopVars>>
    /\ UNCHANGED nonSysVars

\* line 165 and distance_sensor.py lines 123-129: GPIO.cleanup([trigger, echo])
\* is issued on every call
CleanupDistance ==
    /\ main_pc = "cleanup_distance"
    /\ gpio_setup' = gpio_setup \ {"distance"}
    /\ cleanup_calls' = cleanup_called(cleanup_calls, "distance")
    /\ release_ops' = released(release_ops, "distance")
    /\ main_pc' = "cleanup_th"
    /\ UNCHANGED <<is_authenticated, is_running, gui_running>>
    /\ UNCHANGED <<shutdown_calls, finalized, stop_tick>>
    /\ UNCHANGED <<configVars, authVars, loopVars>>
    /\ UNCHANGED nonSysVars

\* line 166 and temperature_humidity_sensor.py lines 141-146: cleanup() only logs
CleanupTH ==
    /\ main_pc = "cleanup_th"
    /\ cleanup_calls' = cleanup_called(cleanup_calls, "th")
    /\ main_pc' = "cleanup_nfc"
    /\ UNCHANGED <<is_authenticated, is_running, gpio_setup, gui_running>>
    /\ UNCHANGED <<shutdown_calls, release_ops, finalized, stop_tick>>
    /\ UNCHANGED <<configVars, authVars, loopVars>>
    /\ UNCHANGED nonSysVars

\* nfc_reader.cleanup(), lines 272-276: the release operations after one
\* more call, which closes the handle only if there is one
nfc_released(ops, handle) ==
    IF handle = "open" THEN released(ops, "nfc") ELSE ops

\* line 167 and nfc_reader.py lines 270-278
CleanupNfc ==
    /\ main_pc = "cleanup_nfc"
    /\ cleanup_calls' = cleanup_called(cleanup_calls, "nfc")
    /\ release_ops' = nfc_released(release_ops, clf)
    /\ clf' = "none"
    /\ main_pc' = "done"
    /\ UNCHANGED <<is_authenticated, is_running, gpio_setup, gui_running>>
    /\ UNCHANGED <<shutdown_calls, finalized, stop_tick>>
    /\ UNCHANGED <<card_on_reader, wait_elapsed, wait_ret, card_id, valid_ret,
                   auth_error>>
    /\ UNCHANGED <<configVars, loopVars>>
    /\ UNCHANGED nonSysVars

\* every component's cleanup() called once more, in the order of lines 164-167
all_cleaned_up ==
    /\ gpio_setup' = {}
    /\ cleanup_calls' = [c \in Components |-> cleanup_calls[c] + 1]
    /\ release_ops' = nfc_released(released(released(release_ops, "motion"),
                                            "distance"), clf)
    /\ clf' = "none"

\* lines 158-169: shutdown() called again after run() has returned
ShutdownAgain ==
    /\ main_pc = "done"
    /\ ~finalized
    /\ shutdown_calls < MaxShutdownCalls
    /\ is_running' = FALSE
    /\ shutdown_calls' = shutdown_calls + 1
    /\ stop_tick' = stopped_at(stop_tick)
    /\ all_cleaned_up
    /\ UNCHANGED <<main_pc, is_authenticated, gui_running, finalized>>
    /\ UNCHANGED <<card_on_reader, wait_elapsed, wait_ret, card_id, valid_ret,
                   auth_error>>
    /\ UNCHANGED <<configVars, loopVars>>
    /\ UNCHANGED nonSysVars

\* the components' __del__ methods (motion_sensor.py 88-90, distance_sensor.py
\* 131-133, temperature_humidity_sensor.py 148-149, nfc_reader.py 280-282)
\* when the system object is dropped: each calls cleanup()
Finalize ==
    /\ main_pc = "done"
    /\ ~finalized
    /\ finalized' = TRUE
    /\ all_cleaned_up
    /\ UNCHANGED <<main_pc, is_authenticated, is_running, gui_running,
                   shutdown_calls, stop_tick>>
    /\ UNCHANGED <<card_on_reader, wait_elapsed, wait_ret, card_id, valid_ret,
                   auth_error>>
    /\ UNCHANGED <<configVars, loopVars>>
    /\ UNCHANGED nonSysVars

\* ---- sensor_loop(), lines 115-121, and read_sensors(), lines 86-111 ----
\* Every driver method catches Exception itself and returns its failure
\* value, so the except branch of read_sensors (lines 107-109) is never
\* entered and system_status stays 'running'.

\* line 115: while self.is_running
keeps_looping_always(running) == TRUE
keeps_looping(running) == running

SensorLoopCheck ==
    /\ sensor_pc = "loop"
    /\ is_running => ticks < MaxTicks
    /\ IF ~keeps_looping(is_running)
       THEN sensor_pc' = "exit" /\ UNCHANGED <<sensor_data, tick_failed>>
       ELSE IF is_authenticated
            THEN /\ sensor_pc' = "read_motion"
                 /\ sensor_data' = NewSensorData(ticks + 1)
                 /\ tick_failed' = {}
            ELSE sensor_pc' = "sleep" /\ UNCHANGED <<sensor_data, tick_failed>>
    /\ UNCHANGED <<ticks, data_queue, histVars>>
    /\ UNCHANGED <<configVars, authVars, runVars>>
    /\ UNCHANGED nonSysVars

\* line 97: motion_sensor.detect_motion(); GPIO.input raises once the line
\* was cleaned up, and detect_motion then returns False
ReadMotion ==
    /\ sensor_pc = "read_motion"
    /\ IF "motion" \in gpio_setup
       THEN /\ \E level \in {0, 1} :
                 sensor_data' = [sensor_data EXCEPT
                                   !.motion_detected = detect_motion(level)]
            /\ UNCHANGED tick_failed
       ELSE /\ sensor_data' = [sensor_data EXCEPT !.motion_detected = FALSE]
            /\ tick_failed' = tick_failed \cup {"motion"}
    /\ sensor_pc' = "read_distance"
    /\ tick_done' = tick_done \cup {"motion"}
    /\ UNCHANGED <<ticks, data_queue, consumed>>
    /\ UNCHANGED <<configVars, authVars, runVars>>
    /\ UNCHANGED nonSysVars

\* the echo line gave no pulse, or one whose distance is outside [2, 450] cm
distance_read_failed(outcome) ==
    \/ outcome.kind # "pulse"
    \/ outcome.dur * 17150 < 2000
    \/ outcome.dur * 17150 > 450000

distance_stored_alone_unless_failed(data, d) ==
    IF d = Milli(ErrorCm)
    THEN [NewSensorData(data.timestamp) EXCEPT !.distance_cm = Num(d)]
    ELSE [data EXCEPT !.distance_cm = Num(d)]

\* line 100: sensor_data['distance_cm'] = <the value measure_distance returned>
distance_stored(data, d) == [data EXCEPT !.distance_cm = Num(d)]

\* line 100: distance_sensor.measure_distance()
ReadDistance ==
    /\ sensor_pc = "read_distance"
    /\ \E outcome \in (IF "distance" \in gpio_setup
                       THEN TickOutcomes
                       ELSE {[kind |-> "exception", dur |-> 0]}) :
         /\ \E d \in measure_distance(outcome) :
              sensor_data' = distance_stored(sensor_data, d)
         /\ tick_failed' = IF distance_read_failed(outcome)
                           THEN tick_failed \cup {"distance"}
                           ELSE tick_failed
    /\ sensor_pc' = "read_th"
    /\ tick_done' = tick_done \cup {"distance"}
    /\ UNCHANGED <<ticks, data_queue, consumed>>
    /\ UNCHANGED <<configVars, authVars, runVars>>
    /\ UNCHANGED nonSysVars

\* read_retry gave no complete answer, or one outside the physical ranges
th_read_failed(resp) ==
    \/ resp[1] = None \/ resp[2] = None
    \/ Val(resp[2]) < -4000 \/ Val(resp[2]) > 8000
    \/ Val(resp[1]) < 0 \/ Val(resp[1]) > 10000

\* lines 103-105: temp, humidity = temp_humidity_sensor.read_data()
ReadTempHumidity ==
    /\ sensor_pc = "read_th"
    /\ \E resp \in TickResponses :
         /\ \E r \in validated(resp) :
              sensor_data' = [sensor_data EXCEPT !.temperature_c = r[1],
                                                 !.humidity_percent = r[2]]
         /\ tick_failed' = IF th_read_failed(resp)
                           THEN tick_failed \cup {"th"}
                           ELSE tick_failed
    /\ sensor_pc' = "put"
    /\ tick_done' = tick_done \cup {"th"}
    /\ UNCHANGED <<ticks, data_queue, consumed>>
    /\ UNCHANGED <<configVars, authVars, runVars>>
    /\ UNCHANGED nonSysVars

put_front(queue, item) == <<item>> \o queue

\* queue.Queue().put(item) on the unbounded FIFO queue of line 41: never
\* blocks, never drops
put(queue, item) == Append(queue, item)

\* line 118: self.data_queue.put(data)
PutReading ==
    /\ sensor_pc = "put"
    /\ data_queue' = put(data_queue, sensor_data)
    /\ ticks' = ticks + 1
    /\ sensor_pc' = "sleep"
    /\ sensor_data' = NoSensorData     \* the dict now belongs to the queue
    /\ tick_failed' = {}
    /\ tick_done' = {}
    /\ UNCHANGED consumed
    /\ UNCHANGED <<configVars, authVars, runVars>>
    /\ UNCHANGED nonSysVars

\* line 121: time.sleep(READING_INTERVAL)
SensorSleep ==
    /\ sensor_pc = "sleep"
    /\ sensor_pc' = "loop"
    /\ UNCHANGED <<sensor_data, tick_failed, ticks, data_queue, histVars>>
    /\ UNCHANGED <<configVars, authVars, runVars>>
    /\ UNCHANGED nonSysVars

\* gui_display.py lines 352-356: data_update_loop takes one reading
GuiConsume ==
    /\ gui_running
    /\ data_queue # << >>
    /\ consumed' = Append(consumed, Head(data_queue).timestamp)
    /\ data_queue' = Tail(data_queue)
    /\ UNCHANGED <<sensor_pc, sensor_data, tick_failed, ticks, tick_done>>
    /\ UNCHANGED <<configVars, authVars, runVars>>
    /\ UNCHANGED nonSysVars

AuthSteps ==
    \/ RunStart
    \/ WaitForCardMock
    \/ WaitForCardPoll
    \/ WaitForCardTimeout
    \/ ReadCardId
    \/ Validate
    \/ SetRunning

NextSystem ==
    \/ PresentCard
    \/ RemoveCard
    \/ AuthSteps
    \/ WaitForCardException
    \/ StartThread
    \/ GuiRun
    \/ GuiClose
    \/ HeadlessWait
    \/ KeyboardInterrupt
    \/ InterruptBeforeTry
    \/ ShutdownStop
    \/ CleanupMotion
    \/ CleanupDistance
    \/ CleanupTH
    \/ CleanupNfc
    \/ SensorLoopCheck
    \/ ReadMotion
    \/ ReadDistance
    \/ ReadTempHumidity
    \/ PutReading
    \/ SensorSleep
    \/ GuiConsume

\* what may follow once run() has returned: the caller calls shutdown()
\* again, or drops the system object
NextLifecycle ==
    \/ NextSystem
    \/ ShutdownAgain
    \/ Finalize

(***************************************************************************)
(* ConfigManager: load_from_environment, validate_config, and the pins     *)
(* the sensor components are constructed with                              *)
(***************************************************************************)
GpioFirst == 2
GpioStop == 28

\* config.py lines 14-21: the defaults of PinConfig
default_pins == [motion |-> 18, trigger |-> 23, echo |-> 24, th |-> 4]
\* config.py lines 30-38: the defaults of SensorConfig, as (min, max)
default_ranges ==
    [distance |-> <<2, 450>>, temperature |-> <<-40, 80>>, humidity |-> <<0, 100>>]

PinNames == {"motion", "trigger", "echo", "th"}
\* what an environment variable may hold: unset (or empty), or a numeral
EnvValues == {None, Num(1), Num(2), Num(23), Num(27), Num(28)}
\* the ranges a SensorConfig may hold when validate_config is called
RangeChoices ==
    [distance : {<<2, 450>>, <<450, 450>>},
     temperature : {<<-40, 80>>, <<80, -40>>},
     humidity : {<<0, 100>>, <<100, 100>>}]

NoClaims == [c \in SensorReads |-> {}]

\* lines 124-134: a pin is replaced when its variable is set
load_from_environment(current, environment) ==
    [n \in PinNames |-> IF environment[n] # None
                        THEN Val(environment[n])
                        ELSE current[n]]

\* lines 162-167
pin_list(p) == <<p.motion, p.trigger, p.echo, p.th>>

Range(seq) == {seq[i] : i \in 1..Len(seq)}

valid_pins_wide == GpioFirst..GpioStop
\* line 173: list(range(2, 28))
valid_pins == GpioFirst..(GpioStop - 1)

\* lines 174-176: one error for each pin outside valid_pins, in list order
RECURSIVE pin_errors(_)
pin_errors(list) ==
    IF list = << >> THEN << >>
    ELSE (IF Head(list) \notin valid_pins
          THEN << <<"Invalid GPIO pin number", Head(list)>> >>
          ELSE << >>) \o pin_errors(Tail(list))

\* lines 159-188: the list validate_config returns
validate_config(p, r) ==
    (IF Len(pin_list(p)) # Cardinality(Range(pin_list(p)))
     THEN << <<"Duplicate GPIO pin assignments detected">> >> ELSE << >>)
    \o pin_errors(pin_list(p))
    \o (IF r.distance[1] >= r.distance[2]
        THEN << <<"Invalid distance sensor range">> >> ELSE << >>)
    \o (IF r.temperature[1] >= r.temperature[2]
        THEN << <<"Invalid temperature range">> >> ELSE << >>)
    \o (IF r.humidity[1] >= r.humidity[2]
        THEN << <<"Invalid humidity range">> >> ELSE << >>)

\* main.py lines 46-51: the GPIO lines each sensor component is given
claims_of(p) ==
    [c \in SensorReads |->
        CASE c = "motion" -> {p.motion}
          [] c = "distance" -> {p.trigger, p.echo}
          [] c = "th" -> {p.th}]

\* ConfigManager.__init__, lines 111-115, before load_from_environment
InitConfig ==
    /\ cfg_pc = "defaults"
    /\ env \in [PinNames -> EnvValues]
    /\ pins = default_pins
    /\ ranges \in RangeChoices
    /\ errors = None
    /\ claimed = NoClaims

\* the configuration of a system constructed without environment overrides
IdleConfig ==
    /\ cfg_pc = "constructed"
    /\ env = [n \in PinNames |-> None]
    /\ pins = default_pins
    /\ ranges = default_ranges
    /\ errors = None
    /\ claimed = claims_of(default_pins)

\* line 118: self.load_from_environment()
LoadFromEnvironment ==
    /\ cfg_pc = "defaults"
    /\ pins' = load_from_environment(pins, env)
    /\ cfg_pc' = "loaded"
    /\ UNCHANGED <<env, ranges, errors, claimed>>
    /\ UNCHANGED nonCfgVars

\* a call of config.validate_config(); nothing in src/ makes this call, and
\* its result gates nothing
ValidateConfig ==
    /\ cfg_pc \in {"loaded", "constructed"}
    /\ errors = None
    /\ errors' = Num(validate_config(pins, ranges))
    /\ UNCHANGED <<cfg_pc, env, pins, ranges, claimed>>
    /\ UNCHANGED nonCfgVars

\* main.py lines 46-51: SensorMonitoringSystem.__init__ constructs the
\* sensors with config.pins as loaded; nothing is checked first. For a pin
\* that is not a channel of the board GPIO.setup (motion_sensor.py line 26,
\* distance_sensor.py lines 28-29) may raise, which aborts the construction;
\* whether it does is the GPIO library's choice.
ConstructSensors ==
    /\ cfg_pc = "loaded"
    /\ \/ /\ claimed' = claims_of(pins)
          /\ cfg_pc' = "constructed"
       \/ /\ \E n \in {"motion", "trigger", "echo"} : pins[n] \notin valid_pins
          /\ cfg_pc' = "aborted"
          /\ UNCHANGED claimed
    /\ UNCHANGED <<env, pins, ranges, errors>>
    /\ UNCHANGED nonCfgVars

NextConfig ==
    \/ LoadFromEnvironment
    \/ ValidateConfig
    \/ ConstructSensors

(***************************************************************************)
(* Specifications                                                          *)
(***************************************************************************)
IdleCards == InitCards

IdleTH ==
    /\ InitReadMultiple
    /\ th_pc = "idle"
    /\ th_mock = FALSE
    /\ th_script = [i \in 1..Retries |-> NoResponse]
    /\ th_attempt = 0
    /\ th_raw = NoResponse
    /\ th_ret = <<None, None>>
    /\ th_exit = "none"

IdleSystem ==
    /\ skip_auth = FALSE
    /\ headless = TRUE
    /\ gui = FALSE
    /\ nfc_lib = FALSE
    /\ clf = "none"
    /\ card_on_reader = NoCard
    /\ main_pc = "start"
    /\ is_authenticated = FALSE
    /\ is_running = FALSE
    /\ wait_elapsed = 0
    /\ wait_ret = None
    /\ card_id = NoneId
    /\ valid_ret = None
    /\ auth_error = FALSE
    /\ gpio_setup = {"motion", "distance"}
    /\ sensor_pc = "idle"
    /\ sensor_data = NoSensorData
    /\ tick_failed = {}
    /\ ticks = 0
    /\ data_queue = << >>
    /\ gui_running = FALSE
    /\ InitExit
    /\ InitHist

\* the monitoring system: run(), the sensor thread, the display thread
Init ==
    /\ InitSystem /\ IdleCards /\ InitDistance /\ InitMultiple /\ InitMotion
    /\ IdleTH /\ IdleConfig
Next == NextSystem
Spec == Init /\ [][Next]_vars
\* the main thread keeps taking the steps of authenticate_user and run()
SpecFair == Spec /\ WF_vars(AuthSteps)
\* run() followed by further shutdown() calls and the finalizers
SpecLifecycle == Init /\ [][NextLifecycle]_vars

\* the card set API called in any order
NextCardCalls ==
    \E cid \in CardIds \cup {NoneId} :
        \/ ValidateCard(cid)
        \/ cid # NoneId /\ AddAuthorizedCard(cid)
        \/ cid # NoneId /\ RemoveAuthorizedCard(cid)
InitCardsSpec ==
    InitCards /\ InitDistance /\ InitMultiple /\ InitMotion /\ IdleTH /\ IdleSystem /\ IdleConfig
SpecCards == InitCardsSpec /\ [][NextCardCalls]_vars
\* the card set API called from two threads at once
SpecThreads == InitCardsSpec /\ [][NextThreads]_vars

\* one call of measure_distance against an arbitrary echo line
InitDistanceSpec ==
    InitDistance /\ IdleCards /\ InitMultiple /\ InitMotion /\ IdleTH /\ IdleSystem /\ IdleConfig
SpecDistance == InitDistanceSpec /\ [][NextDistance]_vars
\* the polling loops keep running
SpecDistanceFair == SpecDistance /\ WF_vars(NextDistance)

\* one call of measure_multiple
InitMultipleSpec ==
    InitMultiple /\ IdleCards /\ InitDistance /\ InitMotion /\ IdleTH /\ IdleSystem /\ IdleConfig
SpecMultiple == InitMultipleSpec /\ [][NextMultiple]_vars

\* one call of wait_for_motion
InitMotionSpec ==
    InitMotion /\ IdleCards /\ InitDistance /\ InitMultiple /\ IdleTH /\ IdleSystem /\ IdleConfig
SpecMotion == InitMotionSpec /\ [][NextMotion]_vars
\* the calling thread keeps running: the call, each poll and each sleep return
SpecMotionFair == SpecMotion /\ WF_vars(NextMotion)

\* one call of read_data
InitTHSpec ==
    InitTH /\ IdleCards /\ InitDistance /\ InitMultiple /\ InitMotion /\ IdleSystem /\ IdleConfig
SpecTH == InitTHSpec /\ [][NextTH]_vars
\* one call of read_multiple
InitReadMultipleSpec ==
    IdleTH /\ IdleCards /\ InitDistance /\ InitMultiple /\ InitMotion /\ IdleSystem /\ IdleConfig
SpecReadMultiple == InitReadMultipleSpec /\ [][NextReadMultiple]_vars

\* startup: the configuration is loaded, then the sensors are constructed
InitConfigSpec ==
    /\ InitConfig /\ IdleCards /\ InitDistance /\ InitMultiple /\ InitMotion
    /\ IdleTH /\ IdleSystem
SpecConfig == InitConfigSpec /\ [][NextConfig]_vars

\* the sensor thread keeps taking its steps
SensorSteps ==
    \/ SensorLoopCheck
    \/ ReadMotion
    \/ ReadDistance
    \/ ReadTempHumidity
    \/ PutReading
    \/ SensorSleep
SpecLoopFair == Spec /\ WF_vars(SensorSteps)

(***************************************************************************)
(* Properties                                                              *)
(***************************************************************************)
\* is_running was set at some point of this run()
EverRunning == is_running \/ sensor_pc # "idle"

\* C1: with skip_auth unset, is_running is set only after wait_for_card
\* returned true and validate_card accepted the id read_card_id returned
\* (its digest is in the authorized set); when wait_for_card returned false,
\* read_card_id returned None or validate_card returned false, run() is at
\* its return without is_running or is_authenticated ever set.
C1_RunningOnlyAfterAccept ==
    /\ (~skip_auth /\ (EverRunning \/ is_authenticated))
          => /\ wait_ret = Num(TRUE)
             /\ card_id # NoneId
             /\ hash_card_id(card_id) \in authorized_cards
             /\ valid_ret = Num(TRUE)
    /\ (~skip_auth /\ (wait_ret = Num(FALSE) \/ valid_ret = Num(FALSE)))
          => main_pc = "done" /\ ~EverRunning /\ ~is_authenticated
    /\ (~skip_auth /\ main_pc = "validate" /\ card_id = NoneId)
          => ~EverRunning /\ ~is_authenticated
    /\ (~skip_auth /\ main_pc \in {"done", "set_running"} /\ card_id = NoneId
          /\ wait_ret = Num(TRUE))
          => valid_ret = Num(FALSE)

C1_Witness ==
    /\ ~skip_auth /\ nfc_lib
    /\ card_id = "DEADBEEF"
    /\ valid_ret = Num(FALSE)
    /\ main_pc = "done"
    /\ ~EverRunning

\* the authorized card is on an initialized reader while wait_for_card polls
AuthorizedCardPresented ==
    /\ ~skip_auth /\ nfc_lib /\ clf = "open"
    /\ main_pc = "wait_for_card"
    /\ wait_elapsed < CardTimeout
    /\ card_on_reader = "01020304"

RunningAfterSample ==
    /\ wait_ret = Num(TRUE)
    /\ card_id = "01020304"
    /\ valid_ret = Num(TRUE)
    /\ is_authenticated /\ is_running

\* the three calls happen in the order wait_for_card, read_card_id, validate_card
AuthCallOrder ==
    /\ card_id # NoneId => wait_ret = Num(TRUE)
    /\ valid_ret # None => (wait_ret = Num(TRUE) /\ main_pc \notin {"start", "wait_for_card", "read_card_id"})
    /\ main_pc \in {"start", "wait_for_card"} => (card_id = NoneId /\ valid_ret = None)
    /\ (valid_ret # None /\ card_id = "01020304") => valid_ret = Num(TRUE)

\* C2: once the authorized card "01020304" is on the reader before the
\* timeout, wait_for_card returns true, read_card_id returns "01020304",
\* validate_card returns true, in that order, and Running is reached
\* (is_authenticated and is_running both true), unless the card is taken
\* away or a reader call fails first.
C2_AuthorizedCardReachesRunning ==
    /\ []AuthCallOrder
    /\ (AuthorizedCardPresented
          ~> (RunningAfterSample \/ auth_error \/ card_on_reader # "01020304"))

C2_Witness ==
    /\ ~skip_auth /\ nfc_lib
    /\ card_on_reader = "01020304"
    /\ RunningAfterSample
    /\ sensor_pc # "idle"

\* C3 as claimed: for every card id string, the empty one included,
\* validate_card(id) returns true iff the digest of id is in the set.
C3_Original ==
    (card_call.op = "validate" /\ card_call.id # NoneId)
        => card_call.ret = Num(hash_card_id(card_call.id) \in authorized_cards)

\* C3 (amended): for every non-empty card id, validate_card(id) returns true
\* iff the digest of id is in the authorized set, add(id) immediately
\* followed by validate(id) returns true and remove(id) immediately followed
\* by validate(id) returns false; for the empty id validate_card returns
\* false whatever the set holds.
C3_ValidateIffDigestOfNonEmptyId ==
    /\ [](card_call.op = "validate" =>
            card_call.ret =
              Num(/\ card_call.id \notin {"", NoneId}
                  /\ hash_card_id(card_call.id) \in authorized_cards))
    /\ [][(card_call.op = "add" /\ card_call'.op = "validate"
              /\ card_call'.id = card_call.id /\ card_call.id # "")
            => card_call'.ret = Num(TRUE)]_vars
    /\ [][(card_call.op = "remove" /\ card_call'.op = "validate"
              /\ card_call'.id = card_call.id)
            => card_call'.ret = Num(FALSE)]_vars

C3_Witness ==
    /\ card_call = [op |-> "validate", id |-> "DEADBEEF", ret |-> Num(TRUE)]
    /\ hash_card_id("DEADBEEF") \in authorized_cards

\* measure_distance saw both edges within their timeouts and computed a distance
BothEdgesSeen == dist_pc = "done" /\ dist_exit \in {"value", "out_of_range"}
\* pulse_duration * 17150, in thousandths of a centimetre
MeasuredDistance == (pulse_end - pulse_start) * 17150
OutsideBand == MeasuredDistance < 2000 \/ MeasuredDistance > 450000

\* C4 as claimed: a pulse whose distance is outside [2, 450] cm is reported
\* as an outcome that differs from the timeout outcome and is not a number.
C4_Original ==
    (BothEdgesSeen /\ OutsideBand) => dist_ret # Num(-1000)

\* C4 (amended): for every pulse duration whose distance is outside
\* [2, 450] cm, measure_distance returns the number -1, the same value it
\* returns on a timeout; it never returns the converted distance.
C4_OutOfRangeReturnsMinusOne ==
    (BothEdgesSeen /\ OutsideBand) => dist_ret = Num(-1000)

C4_Witness ==
    /\ BothEdgesSeen
    /\ pulse_end - pulse_start = 27
    /\ dist_ret = Num(-1000)

\* C5: for every pulse duration whose distance lies in [2, 450] cm, with
\* both edges seen within their timeouts, measure_distance returns that
\* distance rounded to 2 decimals, a value within [2, 450] cm, never -1.
C5_InRangeReturnsDistance ==
    (BothEdgesSeen /\ ~OutsideBand) =>
        /\ dist_ret # None
        /\ Val(dist_ret) % 10 = 0
        /\ 2 * Abs(Val(dist_ret) - MeasuredDistance) <= 10
        /\ 2000 <= Val(dist_ret) /\ Val(dist_ret) <= 450000

C5_Witness ==
    /\ BothEdgesSeen
    /\ pulse_end - pulse_start = 26
    /\ dist_ret = Num(445900)

\* the samples that are distances, in call order
Successes == SelectSeq(mm_samples, LAMBDA x : x # -1000)

\* C6: measure_multiple(count) calls measure_distance exactly count times,
\* keeps exactly the samples that did not fail, returns their arithmetic
\* mean (rounded to 2 decimals), and returns the failure value iff no
\* sample succeeded.
C6_MeanOfSuccessfulSamples ==
    mm_pc = "done" =>
        /\ Len(mm_samples) = mm_count
        /\ measurements = Successes
        /\ (Successes = << >>) <=> (mm_ret = Num(-1000))
        /\ Successes # << >> =>
             /\ Val(mm_ret) % 10 = 0
             /\ 2 * Abs(Val(mm_ret) * Len(Successes) - Sum(Successes))
                  <= 10 * Len(Successes)

\* count = 5, two successes (17.15 cm and 34.3 cm) and three failures
C6_Witness ==
    /\ mm_pc = "done"
    /\ mm_count = 5
    /\ Successes = <<17150, 34300>>
    /\ Len(SelectSeq(mm_samples, LAMBDA x : x = -1000)) = 3
    /\ mm_ret \in {Num(25720), Num(25730)}

\* C7: whatever the echo line does, measure_distance terminates; it gives
\* up the wait for the rising edge once the line is read low more than
\* 100 ms after that wait began, and the wait for the falling edge once the
\* line is read high more than 100 ms after the high level was recorded,
\* each wait counted from its own start.
C7_EachEdgeWaitTimesOut ==
    /\ [](dist_pc = "wait_rise" => pulse_start - timeout_start <= 100)
    /\ [](dist_pc = "wait_fall" => pulse_end - timeout_end <= 100)
    /\ []((dist_pc = "done" /\ dist_exit = "timeout_start")
            => (pulse_start - timeout_start > 100 /\ dist_ret = Num(-1000)))
    /\ []((dist_pc = "done" /\ dist_exit = "timeout_end")
            => (pulse_end - timeout_end > 100 /\ dist_ret = Num(-1000)))
    /\ <>(dist_pc = "done")

\* the rising edge came after 90 ms and the line then stayed high
C7_Witness ==
    /\ dist_pc = "done"
    /\ dist_exit = "timeout_end"
    /\ pulse_start - timeout_start >= 90
    /\ pulse_end - timeout_end > 100

\* C8 as claimed: wait_for_motion(timeout=0) returns after one read of the
\* line, without sleeping, with the level it read.
C8_Original ==
    wm_timeout = Num(0) =>
        /\ wm_pc # "sleep"
        /\ wm_pc = "done" => wm_ret = Num(wm_line = 1)

\* the first answer of the script that is complete and within the ranges
IsValidResponse(resp) ==
    /\ resp[1] # None /\ resp[2] # None
    /\ -4000 <= Val(resp[2]) /\ Val(resp[2]) <= 8000
    /\ 0 <= Val(resp[1]) /\ Val(resp[1]) <= 10000
HasValidResponse == \E i \in 1..3 : IsValidResponse(th_script[i])
FirstValidResponse ==
    th_script[CHOOSE i \in 1..3 :
                /\ IsValidResponse(th_script[i])
                /\ \A j \in 1..(i - 1) : ~IsValidResponse(th_script[j])]

\* C9 as claimed: read_data discards an out-of-range answer, retries, and
\* returns the valid answer a later attempt within the retry budget gives;
\* it fails only when no attempt gave a valid answer.
C9_Original ==
    (th_pc = "done" /\ th_exit \in {"value", "out_of_range", "failed"}
       /\ HasValidResponse)
        => /\ th_ret[1] # None /\ th_ret[2] # None
           /\ 2 * Abs(Val(th_ret[1]) - Val(FirstValidResponse[2])) <= 10
           /\ 2 * Abs(Val(th_ret[2]) - Val(FirstValidResponse[1])) <= 10

Readings == {sensor_data} \cup {data_queue[i] : i \in 1..Len(data_queue)}

\* C10 as claimed: in a reading about to be published, a field whose read
\* failed in that tick is None, and a reading with status 'error' carries
\* no number.
C10_Original ==
    /\ sensor_pc = "put" =>
         /\ "distance" \in tick_failed => sensor_data.distance_cm = None
         /\ "th" \in tick_failed =>
              (sensor_data.temperature_c = None /\ sensor_data.humidity_percent = None)
    /\ \A r \in Readings : r.system_status = "error" =>
         (r.distance_cm = None /\ r.temperature_c = None /\ r.humidity_percent = None)

\* C10 (amended): in every reading published to the queue a failed
\* temperature/humidity read is None in both fields, a failed distance read
\* is the number -1 (never None, never 0, never a distance), a failed motion
\* read is False, and every field that did not fail holds its value; no
\* published reading has system_status 'error'.
C10_PutInvariant ==
    /\ sensor_pc = "put" =>
         /\ ("distance" \in tick_failed) <=> (sensor_data.distance_cm = Num(-1000))
         /\ "distance" \notin tick_failed =>
              (2000 <= Val(sensor_data.distance_cm)
                 /\ Val(sensor_data.distance_cm) <= 450000)
         /\ ("th" \in tick_failed) <=> (sensor_data.temperature_c = None)
         /\ ("th" \in tick_failed) <=> (sensor_data.humidity_percent = None)
         /\ "motion" \in tick_failed => sensor_data.motion_detected = FALSE
    /\ \A i \in 1..Len(data_queue) :
         /\ data_queue[i].system_status = "running"
         /\ data_queue[i].distance_cm # None
         /\ \/ data_queue[i].distance_cm = Num(-1000)
            \/ (2000 <= Val(data_queue[i].distance_cm)
                  /\ Val(data_queue[i].distance_cm) <= 450000)
         /\ (data_queue[i].temperature_c = None) <=> (data_queue[i].humidity_percent = None)
         /\ data_queue[i].temperature_c # None =>
              (-4000 <= Val(data_queue[i].temperature_c)
                 /\ Val(data_queue[i].temperature_c) <= 8000)
C10_FailedFieldsMarked ==
    /\ []C10_PutInvariant
    /\ [][sensor_pc = "put" /\ sensor_pc' # "put"
            => data_queue' = Append(data_queue, sensor_data)]_vars

C10_Witness ==
    /\ data_queue # << >>
    /\ data_queue[1].distance_cm = Num(-1000)
    /\ data_queue[1].temperature_c = None
    /\ data_queue[1].humidity_percent = None
    /\ data_queue[1].system_status = "running"

\* C11 as claimed: the reading about to be published has system_status
\* 'error' exactly when the motion, distance and temperature/humidity reads
\* of its tick all failed, and 'running' when at least one succeeded.
C11_Original ==
    sensor_pc = "put" =>
        /\ (sensor_data.system_status = "error") <=> (tick_failed = SensorReads)
        /\ tick_failed # SensorReads => sensor_data.system_status = "running"

\* C12 as claimed: however often shutdown() is called, and whether or not the
\* finalizers run after it, each hardware resource (the motion sensor's line,
\* the distance sensor's lines, the NFC reader handle) is released once: no
\* release operation is issued for a resource already released.
C12_Original == \A r \in Resources : release_ops[r] <= 1

\* C13 as claimed: the number of readings held in the data queue never
\* exceeds a fixed cap, the oldest reading being dropped on overflow. For a
\* cap below the number of readings the sensor loop publishes, the queue then
\* never holds all of them.
C13_Original == Len(data_queue) < MaxTicks

\* the timestamps (tick numbers) of the readings in the queue, oldest first
QueuedTicks == [i \in 1..Len(data_queue) |-> data_queue[i].timestamp]

C14_OrderInvariant ==
    /\ consumed \o QueuedTicks = [k \in 1..ticks |-> k]
    /\ sensor_pc = "put" =>
         (tick_done = SensorReads /\ sensor_data.timestamp = ticks + 1)

\* C14: readings are published in tick order and consumed in that order. The
\* readings consumed so far followed by those still queued are exactly
\* readings 1, 2, ..., ticks in this order; a reading is enqueued only by the
\* put step of its tick, after the motion, distance and temperature/humidity
\* reads of that tick have all returned, as the newest element; the consumer
\* only ever takes the oldest queued reading.
C14_PublishedAndConsumedInTickOrder ==
    /\ []C14_OrderInvariant
    /\ [][Len(data_queue') > Len(data_queue)
            => /\ sensor_pc = "put" /\ tick_done = SensorReads
               /\ data_queue' = Append(data_queue, sensor_data)
               /\ ticks' = ticks + 1
               /\ consumed' = consumed]_vars
    /\ [][Len(data_queue') < Len(data_queue)
            => /\ data_queue' = Tail(data_queue)
               /\ consumed' = Append(consumed, Head(data_queue).timestamp)
               /\ ticks' = ticks]_vars

\* the consumer took reading 1 while reading 2 was being read, then reading 2
C14_Witness ==
    /\ consumed = <<1, 2>>
    /\ data_queue = << >>
    /\ ticks = 2

PinsPairwiseDistinct ==
    /\ pins.motion # pins.trigger /\ pins.motion # pins.echo /\ pins.motion # pins.th
    /\ pins.trigger # pins.echo /\ pins.trigger # pins.th
    /\ pins.echo # pins.th
OnBoard(pin) == 2 <= pin /\ pin <= 27
PinsOnBoard ==
    OnBoard(pins.motion) /\ OnBoard(pins.trigger) /\ OnBoard(pins.echo) /\ OnBoard(pins.th)
RangesOrdered ==
    /\ ranges.distance[1] < ranges.distance[2]
    /\ ranges.temperature[1] < ranges.temperature[2]
    /\ ranges.humidity[1] < ranges.humidity[2]
Reported(e) == \E i \in 1..Len(Val(errors)) : Val(errors)[i] = e

\* C15: the list validate_config returns is empty exactly when the four pins
\* are pairwise distinct, each pin is within 2..27, and min < max holds for
\* the distance, temperature and humidity ranges; a duplicate, each pin
\* outside 2..27 and each range with min >= max has its own error in the list.
C15_ValidateConfigErrors ==
    errors # None =>
        /\ (Val(errors) = << >>) <=> (PinsPairwiseDistinct /\ PinsOnBoard /\ RangesOrdered)
        /\ ~PinsPairwiseDistinct <=> Reported(<<"Duplicate GPIO pin assignments detected">>)
        /\ \A n \in PinNames :
             ~OnBoard(pins[n]) <=> Reported(<<"Invalid GPIO pin number", pins[n]>>)
        /\ (ranges.distance[1] >= ranges.distance[2])
             <=> Reported(<<"Invalid distance sensor range">>)
        /\ (ranges.temperature[1] >= ranges.temperature[2])
             <=> Reported(<<"Invalid temperature range">>)
        /\ (ranges.humidity[1] >= ranges.humidity[2])
             <=> Reported(<<"Invalid humidity range">>)

\* MOTION_SENSOR_PIN=23 collides with the trigger pin, TEMP_HUMIDITY_PIN=28 is
\* off the board, the humidity range is empty: three errors
C15_Witness ==
    /\ errors # None
    /\ pins = [motion |-> 23, trigger |-> 23, echo |-> 24, th |-> 28]
    /\ ranges.humidity = <<100, 100>> /\ ranges.distance = <<2, 450>>
    /\ ranges.temperature = <<-40, 80>>
    /\ Len(Val(errors)) = 3

\* no GPIO line is claimed by two sensor components
LinesExclusivelyOwned ==
    \A c1, c2 \in SensorReads : c1 # c2 => claimed[c1] \cap claimed[c2] = {}

\* C16 as claimed: whatever the environment variables hold, the sensors are
\* only ever constructed with four pairwise distinct pins within 2..27, so
\* that no two components claim the same GPIO line.
C16_Original ==
    cfg_pc = "constructed" =>
        (PinsPairwiseDistinct /\ PinsOnBoard /\ LinesExclusivelyOwned)

\* the nfc library is present and initialize_reader failed: the handle was
\* never opened (it is "none" although cleanup() has not run)
ReaderInitFailed == nfc_lib /\ clf = "none" /\ cleanup_calls["nfc"] = 0

\* C17 as claimed: when the NFC reader could not be claimed during startup,
\* startup aborts: run() never goes on to authentication or to Running with
\* the uninitialized handle, with or without skip_auth.
C17_Original ==
    ReaderInitFailed => (main_pc = "start" /\ ~is_running /\ ~is_authenticated)

\* the fields of a reading that the read of one sensor may write
FieldsOf(sensor) ==
    CASE sensor = "motion" -> {"motion_detected"}
      [] sensor = "distance" -> {"distance_cm"}
      [] sensor = "th" -> {"temperature_c", "humidity_percent"}

ReadingFields ==
    {"timestamp", "motion_detected", "distance_cm", "temperature_c",
     "humidity_percent", "system_status"}

\* the read of `sensor` has just been made in this step
JustRead(sensor) == sensor \notin tick_done /\ sensor \in tick_done'

\* every read, failed or not, leaves the fields of the other sensors, the
\* timestamp and the status of the tick's reading as they were
C18_ReadTouchesOwnFields ==
    [][\A s \in SensorReads :
          JustRead(s) =>
              \A f \in ReadingFields \ FieldsOf(s) :
                  sensor_data'[f] = sensor_data[f]]_vars

\* a failed read does not stop the tick: the next step of the tick is taken
C18_FailureIsNotFatal ==
    [][\A s \in SensorReads :
          (JustRead(s) /\ s \in tick_failed') =>
              sensor_pc' \in {"read_distance", "read_th", "put"}]_vars

\* the sensor thread leaves its loop only once is_running is false
C18_LoopEndsOnlyWhenStopped == [][sensor_pc' = "exit" => ~is_running]_vars

\* a tick with a failed read is still published: the record of the tick's
\* failures is only dropped by the put of the tick's reading, and that put
\* always comes
C18_FailedTickPublished ==
    /\ [][(tick_failed # {} /\ tick_failed' = {}) =>
             (data_queue' = Append(data_queue, sensor_data) /\ ticks' = ticks + 1)]_vars
    /\ (tick_failed # {}) ~> (tick_failed = {})

\* C18: a failed read of one sensor in a tick is not fatal: it changes only
\* that sensor's fields of the tick's reading, the reading is still
\* published, and the loop goes on to later ticks however many reads fail.
C18_SingleReadFailureNonFatal ==
    /\ C18_ReadTouchesOwnFields
    /\ C18_FailureIsNotFatal
    /\ C18_LoopEndsOnlyWhenStopped
    /\ C18_FailedTickPublished

\* two consecutive readings were published, the first with a failed distance
\* read next to a detected motion and a good temperature, the second with a
\* failed temperature/humidity read next to a good distance
C18_Witness ==
    /\ Len(data_queue) = 2
    /\ data_queue[1].distance_cm = Num(Milli(ErrorCm))
    /\ data_queue[1].motion_detected
    /\ data_queue[1].temperature_c \notin {None, Num(0)}
    /\ data_queue[2].temperature_c = None
    /\ data_queue[2].humidity_percent = None
    /\ data_queue[2].distance_cm \notin {Num(Milli(ErrorCm)), Num(0)}
    /\ is_running

\* run() set is_running (line 138): the system has been in the Running state
EnteredRunning == is_running \/ shutdown_calls > 0

\* C19 as claimed: whenever run() is left after the Running state was
\* entered, shutdown() has been executed: is_running is false and cleanup()
\* has been called on the motion sensor, the distance sensor, the
\* temperature/humidity sensor and the NFC reader.
C19_Original ==
    (main_pc = "done" /\ EnteredRunning) =>
        /\ shutdown_calls >= 1
        /\ ~is_running
        /\ \A c \in Components : cleanup_calls[c] >= 1

\* shutdown() has set is_running to false (line 161)
StopRaised == stop_tick # None

\* readings the loop may still publish after the stop: the one of the tick
\* that was in progress when is_running was set to false, if there was one
AllowedAfterStop == IF stop_tick[2] THEN 1 ELSE 0

\* after the stop at most the reading of the tick in progress is published
C20_AtMostTickInProgress ==
    StopRaised => ticks <= stop_tick[1] + AllowedAfterStop

\* after the stop the loop condition of line 115 starts no tick
C20_NoNewTick ==
    [][StopRaised => ~(sensor_pc = "loop" /\ sensor_pc' = "read_motion")]_vars

\* after the stop the sensor loop ends
C20_LoopTerminates == StopRaised ~> (sensor_pc = "exit")

\* C20: once is_running is set to false the sensor loop starts no new tick,
\* publishes at most the reading of the tick that was in progress, and
\* eventually terminates.
C20_StopObservedAtTickBoundary ==
    /\ []C20_AtMostTickInProgress
    /\ C20_NoNewTick
    /\ C20_LoopTerminates

\* the stop came in the middle of a tick, that tick's reading was still
\* published, and the loop has ended
C20_Witness ==
    /\ StopRaised
    /\ stop_tick[2]
    /\ ticks = stop_tick[1] + 1
    /\ sensor_pc = "exit"

\* the step is a call of remove_authorized_card / validate_card
RemoveStep == card_call'.op = "remove"
ValidateStep == card_call'.op = "validate"
\* the digest of the id the call of this step was given
StepDigest == hash_card_id(card_call'.id)

\* C21: remove_authorized_card(id) for an id whose digest is not in the
\* authorized set leaves the set unchanged and does not raise; a remove
\* changes at most the membership of the digest of its own id; validate_card
\* never changes the authorized set.
C21_RemoveAndValidateFrame ==
    /\ [][(RemoveStep /\ StepDigest \notin authorized_cards) =>
             (authorized_cards' = authorized_cards /\ ~card_raised')]_vars
    /\ [][RemoveStep =>
             authorized_cards' \ {StepDigest} = authorized_cards \ {StepDigest}]_vars
    /\ [][ValidateStep =>
             (authorized_cards' = authorized_cards /\ ~card_raised')]_vars

\* remove_authorized_card was called for a card that was never added: the
\* three default digests are all still there and nothing was raised
C21_Witness ==
    /\ card_call.op = "remove"
    /\ card_call.id = "DEADBEEF"
    /\ authorized_cards = load_authorized_cards
    /\ ~card_raised

\* hexdigest()[:16]: the length of a truncated digest
DigestLen == 16

\* the truncated digests of the card ids
Digests == {hash_card_id(c) : c \in CardIds}

\* C22: after construction and after any sequence of add_authorized_card,
\* remove_authorized_card and validate_card calls, every element of the
\* authorized set is the 16-character truncated digest of some card id, and
\* no raw card id is an element of the set.
C22_OnlyDigestsStored ==
    \A h \in authorized_cards :
        /\ h \in Digests
        /\ Len(h) = DigestLen
        /\ h \notin CardIds

\* a card was added and a default card removed, then a card was validated
C22_Witness ==
    /\ hash_card_id("DEADBEEF") \in authorized_cards
    /\ hash_card_id("") \in authorized_cards
    /\ hash_card_id("01020304") \notin authorized_cards
    /\ card_call.op = "validate"

\* C23 as claimed: under any interleaving of add_authorized_card,
\* remove_authorized_card and validate_card from different threads each call
\* behaves as if it ran atomically; in particular no call ever raises, two
\* concurrent remove_authorized_card calls for the same id included.
C23_Original == thr_raised = {}

\* wait_for_motion was called with a positive timeout and has not returned
PositiveTimeout == wm_timeout # None /\ Val(wm_timeout) > 0
WaitingWithTimeout == wm_pc \in {"detect", "check", "sleep"} /\ PositiveTimeout

\* a poll that reads the line high returns true at once: the loop goes on
\* to its timeout test and its sleep only after a poll that read it low
C24_HighPollReturnsAtOnce == wm_pc \in {"check", "sleep"} => wm_line = 0

\* true is returned only after a poll that read the line high
C24_TrueOnlyAfterHigh == wm_ret = Num(TRUE) => (wm_pc = "done" /\ wm_line = 1)

\* false is returned only once the timeout has elapsed, after a poll that
\* read the line low, and the loop does not sleep again after that
C24_FalseOnceTimeoutElapsed ==
    /\ wm_ret = Num(FALSE) =>
          /\ wm_pc = "done" /\ wm_line = 0
          /\ PositiveTimeout /\ wm_clock > Val(wm_timeout)
    /\ (WaitingWithTimeout /\ wm_pc = "sleep") => wm_clock <= Val(wm_timeout)

\* C24: wait_for_motion with a positive timeout always terminates; it
\* returns true as soon as a poll reads the line high, false once the timeout
\* has elapsed without a poll reading it high, and never true without having
\* read the line high.
C24_WaitForMotionTerminates ==
    /\ []C24_HighPollReturnsAtOnce
    /\ []C24_TrueOnlyAfterHigh
    /\ []C24_FalseOnceTimeoutElapsed
    /\ WaitingWithTimeout ~> (wm_pc = "done")

\* the line stayed low for the whole of a 0.2 s timeout
C24_Witness ==
    /\ wm_pc = "done"
    /\ wm_timeout = Num(2)
    /\ wm_ret = Num(FALSE)
    /\ wm_clock > 2

\* C25 as claimed: wait_for_card returns true only if the reader sensed a
\* card before the timeout elapsed, which takes the reader library and an
\* initialized handle; without the library or without the handle it
\* returns false.
C25_Original ==
    (main_pc = "read_card_id" /\ wait_ret = Num(TRUE)) =>
        (nfc_lib /\ clf = "open")

\* read_data has returned on the hardware path (self.sensor is set)
HardwareReadDone == th_pc = "done" /\ ~th_mock

\* the pair read_retry handed to read_data is complete and inside
\* -40 <= T <= 80, 0 <= H <= 100 (hundredths)
RawInPhysicalRange ==
    /\ th_raw[1] # None /\ th_raw[2] # None
    /\ -4000 <= Val(th_raw[2]) /\ Val(th_raw[2]) <= 8000
    /\ 0 <= Val(th_raw[1]) /\ Val(th_raw[1]) <= 10000

\* C26: whenever read_data returns a non-absent (temperature, humidity) pair
\* on the hardware path, -40 <= T <= 80 and 0 <= H <= 100; a response with a
\* missing component or outside these ranges gives (None, None), never a
\* partially filled pair.
C26_ReturnedPairInRange ==
    HardwareReadDone =>
        /\ (th_ret[1] = None) <=> (th_ret[2] = None)
        /\ th_ret[1] # None =>
              /\ -4000 <= Val(th_ret[1]) /\ Val(th_ret[1]) <= 8000
              /\ 0 <= Val(th_ret[2]) /\ Val(th_ret[2]) <= 10000
        /\ ~RawInPhysicalRange => th_ret = <<None, None>>

\* the transducer answered 100.1 % humidity and read_data returned (None, None)
C26_Witness ==
    /\ HardwareReadDone
    /\ th_raw = <<Num(10010), Num(2230)>>
    /\ th_exit = "out_of_range"
    /\ th_ret = <<None, None>>

\* the pairs read_data returned that are readings, in call order
GoodReadings == SelectSeq(rm_samples, LAMBDA pair : pair # <<None, None>>)
GoodTemperatures == [i \in 1..Len(GoodReadings) |-> GoodReadings[i][1][1]]
GoodHumidities == [i \in 1..Len(GoodReadings) |-> GoodReadings[i][2][1]]

\* value is the mean of the sequence values rounded to one decimal
\* (hundredths, so a multiple of 10 at most half a step from the mean)
RoundedMean(value, values) ==
    /\ value % 10 = 0
    /\ 2 * Abs(value * Len(values) - Sum(values)) <= 10 * Len(values)

\* C27: read_multiple(count) calls read_data exactly count times, discards
\* every failed read, averages temperature and humidity over the same
\* successful reads, and returns (None, None) iff no read succeeded: the
\* policy of the distance sensor's measure_multiple.
C27_MeanOfSuccessfulReadings ==
    rm_pc = "done" =>
        /\ Len(rm_samples) = rm_count
        /\ temperatures = GoodTemperatures
        /\ humidities = GoodHumidities
        /\ (GoodReadings = << >>) <=> (rm_ret = <<None, None>>)
        /\ (GoodReadings = << >>) <=> (rm_ret[1] = None \/ rm_ret[2] = None)
        /\ GoodReadings # << >> =>
             /\ RoundedMean(rm_ret[1][1], GoodTemperatures)
             /\ RoundedMean(rm_ret[2][1], GoodHumidities)

\* count = 3: a failed read between (22.3, 48.1) and (80.0, 100.0)
C27_Witness ==
    /\ rm_pc = "done"
    /\ rm_count = 3
    /\ rm_samples = << <<Num(2230), Num(4810)>>, <<None, None>>,
                       <<Num(8000), Num(10000)>> >>
    /\ rm_ret[1] \in {Num(5110), Num(5120)}
    /\ rm_ret[2] \in {Num(7400), Num(7410)}

\* Running implies Authenticated
C28_RunningImpliesAuthenticated == is_running => is_authenticated

\* a reading is put on the queue only while is_authenticated is true
C28_PublishOnlyAuthenticated ==
    [][Len(data_queue') > Len(data_queue) => is_authenticated]_vars

\* is_authenticated never goes back to false
C28_AuthenticatedIsStable == [][is_authenticated => is_authenticated']_vars

\* once shutdown() has set is_running to false, run() never sets it again
C28_NoRestartAfterShutdown == [][shutdown_calls > 0 => ~is_running']_vars

\* C28: the lifecycle only moves forward through Unauthenticated,
\* Authenticated, Running, ShuttingDown, Stopped: is_running implies
\* is_authenticated, no reading is enqueued while is_authenticated is false,
\* is_authenticated never reverts to false, and is_running is never set to
\* true again once shutdown() has set it to false.
C28_LifecycleMovesForward ==
    /\ []C28_RunningImpliesAuthenticated
    /\ C28_PublishOnlyAuthenticated
    /\ C28_AuthenticatedIsStable
    /\ C28_NoRestartAfterShutdown

\* a card was accepted, readings were published, shutdown() has completed
C28_Witness ==
    /\ ~skip_auth
    /\ main_pc = "done"
    /\ shutdown_calls = 1
    /\ is_authenticated /\ ~is_running
    /\ ticks >= 1
    /\ sensor_pc = "exit"

\* C29 as claimed: under every interleaving of the sensor thread with
\* shutdown(), a sensor's GPIO lines are not released while the sensor
\* thread is inside a tick that has yet to read that sensor, so no sensor is
\* read after its cleanup.
C29_Original ==
    /\ sensor_pc = "read_motion" => "motion" \in gpio_setup
    /\ sensor_pc \in {"read_motion", "read_distance"} => "distance" \in gpio_setup

=============================================================================
